---- MODULE Spec2Model ----
(***************************************************************************)
(* Home Inventory Manager: the data synchronisation layer.                 *)
(*                                                                         *)
(* The repository holds four editions of the same browser application,    *)
(* each an independent script:                                             *)
(*   "local"   src/script.js 1-561      localStorage variant (LS_)         *)
(*   "actions" src/script.js 562-1080   GitHub Actions edition (ACT_)      *)
(*   "sync"    src/script.js 1081-1532  Remote Sync version (RS_)          *)
(*   "gh"      src/unnamed/part_001     GitHub JSON only (GH_)             *)
(* A behaviour of the model is a run of one edition (variable variant)     *)
(* in one browser, against one remote document that another writer may    *)
(* replace, over several page loads (sessions).                            *)
(*                                                                         *)
(* Representation.  A JavaScript string is a sequence of one-character     *)
(* strings.  A number is <<"num", n>> with n counted in tenths (1.5 is     *)
(* <<"num", 15>>), NaN is <<"nan">>, null is <<"null">>, and a string      *)
(* where a number is expected is <<"str", s>>.  An object is a record      *)
(* whose domain holds the properties that are present.  Identifiers are    *)
(* positive integers: generated ones come from a counter (or the clock,    *)
(* where the code uses Date.now), those found in documents are > 100.      *)
(***************************************************************************)
EXTENDS Integers, Sequences, FiniteSets, TLC

\* ------------------------------------------------------------------ bounds

\* Operations of the user in one behaviour: clicks, submissions, imports and
\* page reloads.  Everything the user builds is bounded by it: a collection
\* grows by one item per operation (beyond the documents that are loaded or
\* imported), and every operation starts at most one persist.
MaxOps == 2
\* The other writer replaces the remote document only below this revision.
MaxRev == 3
\* Milliseconds the clock advances in one behaviour.
MaxClock == 2

\* ----------------------------------------------------------------- strings

sEmpty == << >>
sBlank == <<" ">>
sFlour == <<"F", "l", "o", "u", "r">>
sSugar == <<" ", "s", "u", "g", "a", "r">>
sBaking == <<"B", "a", "k">>
sTools == <<"T", "l">>
sKg == <<"k", "g">>
sPantry == <<"P", "a", "n">>
s2 == <<"2">>
s1p5 == <<"1", ".", "5">>
sAbc == <<"a", "b", "c">>
sLO == <<"L", "O">>

IsSpace(c) == c = " "

\* String.prototype.trim
RECURSIVE TrimLeft(_)
TrimLeft(s) ==
  IF s # << >> /\ IsSpace(Head(s)) THEN TrimLeft(Tail(s)) ELSE s

RECURSIVE TrimRight(_)
TrimRight(s) ==
  IF s # << >> /\ IsSpace(s[Len(s)]) THEN TrimRight(SubSeq(s, 1, Len(s) - 1)) ELSE s

Trim(s) == TrimRight(TrimLeft(s))

\* ----------------------------------------------------------------- numbers

NaN == <<"nan">>
Null == <<"null">>
Num(n) == <<"num", n>>
Str(s) == <<"str", s>>

IsNum(v) == v[1] = "num"

IsDigit(c) == c \in {"0", "1", "2", "3", "4", "5", "6", "7", "8", "9"}

DigitVal(c) ==
  CASE c = "0" -> 0 [] c = "1" -> 1 [] c = "2" -> 2 [] c = "3" -> 3 [] c = "4" -> 4
    [] c = "5" -> 5 [] c = "6" -> 6 [] c = "7" -> 7 [] c = "8" -> 8 [] c = "9" -> 9

\* Length of the longest prefix of s made of digits.
RECURSIVE DigitPrefix(_)
DigitPrefix(s) ==
  IF s # << >> /\ IsDigit(Head(s)) THEN 1 + DigitPrefix(Tail(s)) ELSE 0

\* Value of a sequence of digits.
RECURSIVE DigitsVal(_)
DigitsVal(s) ==
  IF s = << >> THEN 0 ELSE 10 * DigitsVal(SubSeq(s, 1, Len(s) - 1)) + DigitVal(s[Len(s)])

\* The decimal literal at the start of s: [len |-> characters read, val |-> tenths],
\* len = 0 when s starts with none.  Digits after the first decimal are read and
\* dropped (the model keeps one decimal).
DecimalPrefix(s) ==
  LET n == DigitPrefix(s)
      rest == SubSeq(s, n + 1, Len(s))
      hasDot == rest # << >> /\ Head(rest) = "."
      m == IF hasDot THEN DigitPrefix(Tail(rest)) ELSE 0
      int == DigitsVal(SubSeq(s, 1, n))
      frac == IF m > 0 THEN DigitVal(rest[2]) ELSE 0
  IN  IF n = 0 /\ m = 0 THEN [len |-> 0, val |-> 0]
      ELSE [len |-> n + (IF hasDot THEN 1 + m ELSE 0), val |-> 10 * int + frac]

\* parseFloat(s): the longest numeric prefix after leading white space, else NaN.
ParseFloat(s) ==
  LET d == DecimalPrefix(TrimLeft(s))
  IN  IF d.len = 0 THEN NaN ELSE Num(d.val)

\* Number(s) of a string: the whole trimmed string must be a literal; "" is 0.
NumberOfString(s) ==
  LET t == Trim(s)
      d == DecimalPrefix(t)
  IN  IF t = << >> THEN Num(0)
      ELSE IF d.len = Len(t) /\ d.len > 0 THEN Num(d.val) ELSE NaN

\* Truthiness of a quantity value (the left side of `x || 0`).
Truthy(v) ==
  CASE v[1] = "num" -> v[2] # 0
    [] v[1] = "str" -> v[2] # << >>
    [] OTHER -> FALSE

\* Number(v)
ToNumber(v) ==
  CASE v[1] = "num" -> v
    [] v[1] = "str" -> NumberOfString(v[2])
    [] v[1] = "null" -> Num(0)
    [] OTHER -> NaN

\* ------------------------------------------------------------- JSON values

\* A parsed JSON text: an array of elements, some other JSON value, or no JSON.
ArrayDoc(items) == [kind |-> "array", items |-> items]
ObjectDoc == [kind |-> "object", items |-> << >>]
InvalidDoc == [kind |-> "invalid", items |-> << >>]

\* The element null of an array.
NullElem == [isNull |-> TRUE]
IsObject(e) == "isNull" \notin DOMAIN e

\* No identifier: the empty hidden field / editingId = null / sha = null.
NoId == 0
NoSha == 0

\* btoa / atob over the ASCII texts of the model.
Btoa(text) == <<"base64", text>>
Atob(content) == content[2]

\* JSON.stringify turns the number NaN into null.
JsonQty(q) == IF q = NaN THEN Null ELSE q

\* JSON.stringify(inventory): every property of every item.
StringifyFull(inv) ==
  ArrayDoc([i \in 1..Len(inv) |-> [inv[i] EXCEPT !.qty = JsonQty(@)]])

\* ({ id, ...rest }) => rest
Rest(it) == [f \in DOMAIN it \ {"id"} |-> it[f]]

\* JSON.stringify(inventory.map(({ id, ...rest }) => rest))
StringifyPlain(inv) ==
  ArrayDoc([i \in 1..Len(inv) |-> [Rest(inv[i]) EXCEPT !.qty = JsonQty(@)]])

\* e.f || '' for a text property f of an object e.
TextOr(e, f) == IF f \in DOMAIN e THEN e[f] ELSE sEmpty

\* e.id is truthy
HasId(e) == "id" \in DOMAIN e /\ e.id # NoId

\* ------------------------------------------------------------ user inputs

\* What the user typed into the form (every field is the text of an input).
Form(n, c, q, u, l, t) ==
  [name |-> n, category |-> c, qty |-> q, unit |-> u, location |-> l, notes |-> t]

FormBlank == Form(sBlank, sBaking, s2, sEmpty, sEmpty, sEmpty)
FormFlour == Form(sFlour, sBaking, s2, sKg, sEmpty, sEmpty)
FormSugar == Form(sSugar, sTools, s1p5, sEmpty, sPantry, sEmpty)

Forms == {FormBlank, FormFlour, FormSugar}

\* Documents the user imports and documents found in the remote store.
ElemFlour == [name |-> sFlour, category |-> sBaking, qty |-> Num(20), unit |-> sKg]
ElemSugar == [name |-> <<"s", "u">>, qty |-> Str(s1p5), notes |-> sPantry]
ElemOld == [id |-> 101, name |-> sAbc, category |-> sTools, qty |-> Num(10),
            unit |-> sEmpty, location |-> sEmpty, notes |-> sEmpty]

DocEmpty == ArrayDoc(<< >>)
DocTwo == ArrayDoc(<<ElemFlour, ElemSugar>>)
DocDup == ArrayDoc(<<ElemOld, ElemOld>>)
DocOther == ArrayDoc(<<ElemOld>>)

\* An element whose quantity is a text that is no number, and an array that
\* holds null.
ElemOdd == [name |-> sTools, qty |-> Str(sAbc)]
DocOdd == ArrayDoc(<<ElemOdd>>)
DocNull == ArrayDoc(<<ElemFlour, NullElem>>)

ImportDocs == {ObjectDoc, InvalidDoc, DocTwo, DocDup, DocOdd, DocNull}
OtherDocs == {DocOther}

\* ------------------------------------------------------------------- state

VARIABLES
  variant,     \* which edition runs: "local", "actions", "sync" or "gh"
  GH_TOKEN,    \* the configured access token is non-empty
  phase,       \* "Loading" until loadInventory has settled, then "Ready"
  inventory,   \* let inventory = []
  editingId,   \* itemIdField.value / editingId; NoId when no edit is open
  sortKey,     \* currentSortColumn / sortKey; "none" for null
  sortAsc,     \* currentSortAscending / sortDir = 'asc'
  currentSha,  \* let currentSha = null (gh)
  storage,     \* localStorage: the slot of the edition, << >> or <<text>>
  remote,      \* the remote document: [exists, rev, doc, by]
  tasks,       \* persist operations in flight, in the order they were started
  nextId,      \* identifiers generated so far
  now,         \* Date.now()
  searchInput, \* searchInput.value
  categoryFilter, \* categoryFilter.value: the selected option, << >> for all
  ops,         \* operations of the user so far
  seenRev,     \* history: the revision this session last loaded or wrote
  prior,       \* history: << >>, or <<the collection the previous session held>>
  faults,      \* history: a request met a network error, or another writer wrote
  missedRev,   \* history: the revision this session's load found and did not obtain
  staleRev,    \* history: the revision at which a write of this session was refused as stale
  ev           \* history: the last step taken, [op, arg, saved]

vars == <<variant, GH_TOKEN, phase, inventory, editingId, sortKey, sortAsc,
          currentSha, storage, remote, tasks, nextId, now, searchInput, categoryFilter,
          ops, seenRev, prior, faults, missedRev, staleRev, ev>>

Variants == {"local", "actions", "sync", "gh"}

Ev(op, arg, saved) == [op |-> op, arg |-> arg, saved |-> saved]

\* The budget of operations: the user acts once more.
Spend == ops < MaxOps /\ ops' = ops + 1

Ids(inv) == {inv[i].id : i \in 1..Len(inv)}

\* inventory.findIndex(i => i.id === id): the first index, 0 for -1.
FindIndex(inv, id) ==
  IF id \in Ids(inv) THEN CHOOSE i \in 1..Len(inv) :
                            inv[i].id = id /\ \A j \in 1..(i - 1) : inv[j].id # id
  ELSE 0

\* inventory.splice(idx): everything from idx on goes.
SpliceToEnd(inv, idx) == SubSeq(inv, 1, idx - 1)

\* inventory.splice(idx, 1)
Splice(inv, idx) == SubSeq(inv, 1, idx - 1) \o SubSeq(inv, idx + 1, Len(inv))

\* Identifiers the user can hand to a handler: those of the collection and one
\* that no item carries.
StrayId == 999
ClickIds == Ids(inventory) \cup {StrayId}

\* new Set(inventory.map(item => item.category).filter(Boolean))
Categories(inv) == {inv[i].category : i \in 1..Len(inv)} \ {sEmpty}

\* The value of the category drop-down once render of script.js has rebuilt
\* its options: the selection is put back when it is still a category of the
\* collection, else the drop-down shows "All Categories".
SJ_restore(selected, inv) ==
  IF selected # sEmpty /\ selected \in Categories(inv) THEN selected ELSE sEmpty

\* render of script.js, as far as it changes the controls.
SJ_render(inv) == categoryFilter' = SJ_restore(categoryFilter, inv)

\* render of part_001, as far as it changes the controls: the options of the
\* drop-down are replaced and nothing puts the selection back.
GH_render == categoryFilter' = sEmpty

\* What the user can type into the search box.
SearchTerms == {sEmpty, sPantry, sLO}

\* ----------------------------------------------------- the remote document

\* The remote document.  rev stands for the blob sha the Contents API reports;
\* by names the writer of the current revision.
NoRemote == [exists |-> FALSE, rev |-> NoSha, doc |-> DocEmpty, by |-> "none"]

\* Another writer replaces (or creates) the document.
OtherWrite ==
  /\ remote.rev < MaxRev
  /\ \E d \in OtherDocs :
       remote' = [exists |-> TRUE, rev |-> remote.rev + 1, doc |-> d, by |-> "other"]
  /\ faults' = TRUE
  /\ ev' = Ev("otherWrite", remote.rev + 1, FALSE)
  /\ UNCHANGED <<variant, GH_TOKEN, staleRev, prior, missedRev, searchInput, categoryFilter, phase, inventory, editingId, sortKey, sortAsc,
                 currentSha, storage, tasks, nextId, now, ops, seenRev>>

\* The Contents API's answer to PUT {content, sha}: an existing file is replaced
\* only when sha names its current revision, a missing file is created only
\* when no sha is sent.
PutAccepted(req) ==
  IF remote.exists THEN req.sha = remote.rev ELSE req.sha = NoSha

\* The answer 409 of the Contents API: the request arrived, the file exists and
\* the sha sent with the PUT is not the sha of its current revision.  The
\* history keeps the revision at which that happened until a write succeeds.
StaleRefusal(req, net, accepted) ==
  IF net /\ remote.exists /\ req.sha # NoSha /\ req.sha # remote.rev THEN remote.rev
  ELSE IF accepted THEN NoSha ELSE staleRev

\* A persist operation in flight.
GetShaTask == [kind |-> "getsha", content |-> Btoa(DocEmpty), sha |-> NoSha, orphan |-> FALSE]
PutTask(content, sha) == [kind |-> "put", content |-> content, sha |-> sha, orphan |-> FALSE]

RemoveAt(seq, i) == SubSeq(seq, 1, i - 1) \o SubSeq(seq, i + 1, Len(seq))

\* What a read of the Contents API finds: "error" (the request fails or the
\* status is neither success nor 404), "missing" (404) or "found".
ReadOutcomes == IF remote.exists THEN {"error", "found"} ELSE {"error", "missing"}

\* ------------------------------------------------- gh: GitHub JSON only

\* The item built from one element of a loaded or imported array; gen is the
\* identifier generateId() returns when the element has none.
GH_normalize(it, gen) ==
  [id |-> IF HasId(it) THEN it.id ELSE gen,
   name |-> TextOr(it, "name"),
   category |-> TextOr(it, "category"),
   qty |-> ToNumber(IF "qty" \in DOMAIN it /\ Truthy(it.qty) THEN it.qty ELSE Num(0)),
   unit |-> TextOr(it, "unit"),
   location |-> TextOr(it, "location"),
   notes |-> TextOr(it, "notes")]

\* items.map(it => ({...})), identifiers generated from next + 1 on.
RECURSIVE GH_mapItems(_, _)
GH_mapItems(items, next) ==
  IF items = << >> THEN << >>
  ELSE <<GH_normalize(Head(items), next + 1)>>
         \o GH_mapItems(Tail(items), IF HasId(Head(items)) THEN next ELSE next + 1)

\* Identifiers the map generates.
GH_idsUsed(items) == Cardinality({i \in 1..Len(items) : ~HasId(items[i])})

\* Reading a property of null throws.
MapThrows(items) == \E i \in 1..Len(items) : ~IsObject(items[i])

\* A ghGetFile that takes every status but success for a failure.
GH_ghGetFileStrict(outcome) ==
  IF outcome \in {"missing", "error"}
  THEN [throws |-> TRUE, sha |-> NoSha, data |-> DocEmpty]
  ELSE LET text == Atob(Btoa(remote.doc))
       IN  IF text.kind = "invalid"
           THEN [throws |-> TRUE, sha |-> NoSha, data |-> DocEmpty]
           ELSE [throws |-> FALSE, sha |-> remote.rev, data |-> text]

\* ghGetFile: [throws, sha, data] for a read that finds `outcome`.
GH_ghGetFile(outcome) ==
  CASE outcome = "missing" -> [throws |-> FALSE, sha |-> NoSha, data |-> DocEmpty]
    [] outcome = "error" -> [throws |-> TRUE, sha |-> NoSha, data |-> DocEmpty]
    [] OTHER ->
         LET text == Atob(Btoa(remote.doc))
         IN  IF text.kind = "invalid"
             THEN [throws |-> TRUE, sha |-> NoSha, data |-> DocEmpty]
             ELSE [throws |-> FALSE, sha |-> remote.rev, data |-> text]

\* loadInventory, from the answer of the read to the end.
GH_loadInventory ==
  /\ variant = "gh" /\ phase = "Loading"
  /\ \E outcome \in ReadOutcomes :
       LET got == GH_ghGetFile(outcome)
           items == IF got.data.kind = "array" THEN got.data.items ELSE << >>
           ok == ~got.throws /\ ~MapThrows(items)
       IN  /\ currentSha' = IF got.throws THEN currentSha ELSE got.sha
           /\ inventory' = IF ok THEN GH_mapItems(items, nextId) ELSE << >>
           /\ nextId' = IF ok THEN nextId + GH_idsUsed(items) ELSE nextId
           /\ seenRev' = IF ok /\ outcome = "found" THEN remote.rev ELSE seenRev
           /\ faults' = (faults \/ outcome = "error")
           /\ missedRev' = IF remote.exists /\ ~ok THEN remote.rev ELSE NoSha
           /\ ev' = Ev("load", [outcome |-> outcome, ok |-> ok, rendered |-> TRUE], FALSE)
  /\ phase' = "Ready"
  /\ GH_render
  /\ UNCHANGED <<variant, GH_TOKEN, staleRev, prior, searchInput, editingId, sortKey, sortAsc, storage, remote,
                 tasks, now, ops>>

\* A saveInventory that never sends a sha.
GH_saveInventoryBlind(inv) ==
  tasks' = Append(tasks, PutTask(Btoa(StringifyFull(inv)), NoSha))

\* saveInventory up to its await: the PUT of the whole collection leaves with
\* the sha held at that moment.
GH_saveInventory(inv) ==
  tasks' = Append(tasks, PutTask(Btoa(StringifyFull(inv)), currentSha))

\* A catch that starts over from an empty collection, as the catch of
\* loadInventory does.
GH_saveCatchClears(i) ==
  /\ tasks' = RemoveAt(tasks, i)
  /\ inventory' = << >>
  /\ UNCHANGED currentSha

\* A catch that sends the same write again.
GH_saveCatchResends(i) ==
  /\ tasks' = [tasks EXCEPT ![i] = PutTask(tasks[i].content, currentSha)]
  /\ UNCHANGED <<inventory, currentSha>>

\* The catch of saveInventory: the failure is logged and alerted, the persist
\* is over.
GH_saveCatch(i) ==
  /\ tasks' = RemoveAt(tasks, i)
  /\ UNCHANGED <<inventory, currentSha>>

\* The PUT is answered and saveInventory runs to its end.
GH_saveSettled(i) ==
  /\ variant = "gh" /\ tasks[i].kind = "put"
  /\ \E net \in BOOLEAN :
       LET accepted == net /\ PutAccepted(tasks[i])
       IN  /\ IF accepted
              THEN /\ remote' = [exists |-> TRUE, rev |-> remote.rev + 1,
                                 doc |-> Atob(tasks[i].content), by |-> "self"]
                   /\ currentSha' = remote.rev + 1
                   /\ seenRev' = remote.rev + 1
                   /\ tasks' = RemoveAt(tasks, i)
                   /\ UNCHANGED inventory
              ELSE /\ GH_saveCatch(i)
                   /\ UNCHANGED <<remote, seenRev>>
           /\ faults' = (faults \/ (~net /\ PutAccepted(tasks[i])))
           /\ staleRev' = StaleRefusal(tasks[i], net, accepted)
           /\ ev' = Ev("put", [ok |-> accepted, sha |-> tasks[i].sha,
                               stale |-> remote.exists /\ tasks[i].sha # remote.rev], FALSE)
  /\ UNCHANGED <<variant, GH_TOKEN, prior, missedRev, searchInput, categoryFilter, phase, editingId, sortKey, sortAsc,
                 storage, nextId, now, ops>>

\* The item of the form with the name as typed, not trimmed.
GH_formItemUntrimmed(id, f) ==
  [id |-> id,
   name |-> f.name,
   category |-> Trim(f.category),
   qty |-> ToNumber(IF f.qty # sEmpty THEN Str(f.qty) ELSE Num(0)),
   unit |-> Trim(f.unit),
   location |-> Trim(f.location),
   notes |-> Trim(f.notes)]

\* The item of the form under a newly generated identifier, whatever the
\* identifier of the item it replaces.
GH_formItemNewId(id, f) ==
  [id |-> nextId + 1,
   name |-> Trim(f.name),
   category |-> Trim(f.category),
   qty |-> ToNumber(IF f.qty # sEmpty THEN Str(f.qty) ELSE Num(0)),
   unit |-> Trim(f.unit),
   location |-> Trim(f.location),
   notes |-> Trim(f.notes)]

\* The item the add and update buttons build from the form.
GH_formItem(id, f) ==
  [id |-> id,
   name |-> Trim(f.name),
   category |-> Trim(f.category),
   qty |-> ToNumber(IF f.qty # sEmpty THEN Str(f.qty) ELSE Num(0)),
   unit |-> Trim(f.unit),
   location |-> Trim(f.location),
   notes |-> Trim(f.notes)]

\* addBtn click
GH_addBtn(f) ==
  /\ variant = "gh" /\ Spend
  /\ LET item == GH_formItem(nextId + 1, f)
     IN  IF item.name = sEmpty
         THEN /\ ev' = Ev("create", f, FALSE)
              /\ UNCHANGED <<inventory, editingId, categoryFilter, tasks, nextId>>
         ELSE /\ inventory' = Append(inventory, item)
              /\ nextId' = nextId + 1
              /\ editingId' = NoId
              /\ GH_render
              /\ GH_saveInventory(inventory')
              /\ ev' = Ev("create", f, TRUE)
  /\ UNCHANGED <<variant, GH_TOKEN, staleRev, prior, faults, missedRev, searchInput, phase, sortKey, sortAsc, currentSha, storage,
                 remote, now, seenRev>>

\* updateBtn click
GH_updateBtn(f) ==
  /\ variant = "gh" /\ Spend
  /\ LET idx == FindIndex(inventory, editingId)
     IN  IF editingId = NoId \/ idx = 0
         THEN /\ ev' = Ev("update", f, FALSE)
              /\ UNCHANGED <<inventory, editingId, categoryFilter, tasks>>
         ELSE /\ inventory' = [inventory EXCEPT ![idx] = GH_formItem(inventory[idx].id, f)]
              /\ editingId' = NoId
              /\ GH_render
              /\ GH_saveInventory(inventory')
              /\ ev' = Ev("update", f, TRUE)
  /\ UNCHANGED <<variant, GH_TOKEN, staleRev, prior, faults, missedRev, searchInput, phase, sortKey, sortAsc, currentSha, storage,
                 remote, nextId, now, seenRev>>

\* cancelEditBtn click: stopEdit
GH_cancelEdit ==
  /\ variant = "gh" /\ Spend
  /\ editingId' = NoId
  /\ ev' = Ev("cancel", NoId, FALSE)
  /\ UNCHANGED <<variant, GH_TOKEN, staleRev, prior, faults, missedRev, searchInput, categoryFilter, phase, inventory, sortKey, sortAsc, currentSha,
                 storage, remote, tasks, nextId, now, seenRev>>

\* tableBody click on an Edit button
GH_editClick(id) ==
  /\ variant = "gh" /\ Spend
  /\ editingId' = IF id \in Ids(inventory) THEN id ELSE editingId
  /\ ev' = Ev("edit", id, FALSE)
  /\ UNCHANGED <<variant, GH_TOKEN, staleRev, prior, faults, missedRev, searchInput, categoryFilter, phase, inventory, sortKey, sortAsc, currentSha,
                 storage, remote, tasks, nextId, now, seenRev>>

\* A Delete button that removes the item without asking.
GH_deleteClickUnasked(id, confirmed) ==
  /\ variant = "gh" /\ Spend
  /\ LET idx == FindIndex(inventory, id)
     IN  IF idx # 0
         THEN /\ inventory' = Splice(inventory, idx)
              /\ GH_render
              /\ GH_saveInventory(inventory')
              /\ ev' = Ev("delete", [id |-> id, confirmed |-> confirmed], TRUE)
         ELSE /\ ev' = Ev("delete", [id |-> id, confirmed |-> confirmed], FALSE)
              /\ UNCHANGED <<inventory, categoryFilter, tasks>>
  /\ UNCHANGED <<variant, GH_TOKEN, staleRev, prior, faults, missedRev, searchInput, phase, editingId, sortKey, sortAsc, currentSha,
                 storage, remote, nextId, now, seenRev>>

\* tableBody click on a Delete button; confirmed is the answer to confirm().
GH_deleteClick(id, confirmed) ==
  /\ variant = "gh" /\ Spend
  /\ LET idx == FindIndex(inventory, id)
     IN  IF idx # 0 /\ confirmed
         THEN /\ inventory' = Splice(inventory, idx)
              /\ GH_render
              /\ GH_saveInventory(inventory')
              /\ ev' = Ev("delete", [id |-> id, confirmed |-> confirmed], TRUE)
         ELSE /\ ev' = Ev("delete", [id |-> id, confirmed |-> confirmed], FALSE)
              /\ UNCHANGED <<inventory, categoryFilter, tasks>>
  /\ UNCHANGED <<variant, GH_TOKEN, staleRev, prior, faults, missedRev, searchInput, phase, editingId, sortKey, sortAsc, currentSha,
                 storage, remote, nextId, now, seenRev>>

\* A click on a header that always sorts ascending.
GH_headClickAscending(key) ==
  /\ variant = "gh" /\ Spend
  /\ sortKey' = key /\ sortAsc' = TRUE
  /\ GH_render
  /\ ev' = Ev("sort", key, FALSE)
  /\ UNCHANGED <<variant, GH_TOKEN, staleRev, prior, faults, missedRev, searchInput, phase, inventory, editingId, currentSha,
                 storage, remote, tasks, nextId, now, seenRev>>

\* tableHead click: the sort state of the view
GH_headClick(key) ==
  /\ variant = "gh" /\ Spend
  /\ IF sortKey = key
     THEN sortAsc' = ~sortAsc /\ UNCHANGED sortKey
     ELSE sortKey' = key /\ sortAsc' = TRUE
  /\ GH_render
  /\ ev' = Ev("sort", key, FALSE)
  /\ UNCHANGED <<variant, GH_TOKEN, staleRev, prior, faults, missedRev, searchInput, phase, inventory, editingId, currentSha, storage,
                 remote, tasks, nextId, now, seenRev>>

\* An import that takes whatever is no array for an empty list, as
\* loadInventory does.
GH_importChangeLenient(doc) ==
  /\ variant = "gh" /\ Spend
  /\ LET items == IF doc.kind = "array" THEN doc.items ELSE << >>
     IN  IF MapThrows(items)
         THEN /\ ev' = Ev("import", doc, FALSE)
              /\ UNCHANGED <<inventory, categoryFilter, tasks, nextId>>
         ELSE /\ inventory' = GH_mapItems(items, nextId)
              /\ nextId' = nextId + GH_idsUsed(items)
              /\ GH_render
              /\ GH_saveInventory(inventory')
              /\ ev' = Ev("import", doc, TRUE)
  /\ UNCHANGED <<variant, GH_TOKEN, staleRev, prior, faults, missedRev, searchInput, phase, editingId, sortKey, sortAsc, currentSha,
                 storage, remote, now, seenRev>>

\* importInput change, from the text of the file to the end.
GH_importChange(doc) ==
  /\ variant = "gh" /\ Spend
  /\ IF doc.kind # "array" \/ MapThrows(doc.items)
     THEN /\ ev' = Ev("import", doc, FALSE)
          /\ UNCHANGED <<inventory, categoryFilter, tasks, nextId>>
     ELSE /\ inventory' = GH_mapItems(doc.items, nextId)
          /\ nextId' = nextId + GH_idsUsed(doc.items)
          /\ GH_render
          /\ GH_saveInventory(inventory')
          /\ ev' = Ev("import", doc, TRUE)
  /\ UNCHANGED <<variant, GH_TOKEN, staleRev, prior, faults, missedRev, searchInput, phase, editingId, sortKey, sortAsc, currentSha,
                 storage, remote, now, seenRev>>

\* exportBtn click: the document offered for download.
GH_exportClick ==
  /\ variant = "gh" /\ Spend
  /\ ev' = Ev("export", StringifyFull(inventory), FALSE)
  /\ UNCHANGED <<variant, GH_TOKEN, staleRev, prior, faults, missedRev, searchInput, categoryFilter, phase, inventory, editingId, sortKey, sortAsc,
                 currentSha, storage, remote, tasks, nextId, now, seenRev>>

\* ------------------------------------- script.js: what the editions share

\* The item handleFormSubmit builds from the form (the same text in the three
\* editions of script.js).
SJ_formItem(id, f) ==
  [id |-> id,
   name |-> Trim(f.name),
   category |-> Trim(f.category),
   qty |-> IF f.qty # sEmpty THEN ParseFloat(f.qty) ELSE Num(0),
   unit |-> Trim(f.unit),
   location |-> Trim(f.location),
   notes |-> Trim(f.notes)]

\* The item built from one element of a loaded or imported array, apart from
\* its identifier.
SJ_normalize(item, id) ==
  [id |-> id,
   name |-> TextOr(item, "name"),
   category |-> TextOr(item, "category"),
   qty |-> IF "qty" \in DOMAIN item /\ IsNum(item.qty) THEN item.qty ELSE Num(0),
   unit |-> TextOr(item, "unit"),
   location |-> TextOr(item, "location"),
   notes |-> TextOr(item, "notes")]

\* fetchRemoteData of the raw file (local with a token, actions): the array, or
\* null for a failed request, a missing file, no JSON or no array.
SJ_fetchRaw(outcome) ==
  IF outcome = "found" /\ remote.doc.kind = "array"
  THEN [isNull |-> FALSE, items |-> remote.doc.items]
  ELSE [isNull |-> TRUE, items |-> << >>]

\* getRemoteFileSha: the sha, or null for a missing file or a failed request.
SJ_getRemoteFileSha(outcome) == IF outcome = "found" THEN remote.rev ELSE NoSha

\* updateRemoteData after its guard, up to the first await: the read of the sha
\* leaves.
SJ_updateRemoteData == tasks' = Append(tasks, GetShaTask)

\* updateRemoteData from the answer of getRemoteFileSha to the second await:
\* the PUT of the collection as it is now leaves, with the sha just read.
SJ_shaSettled(i) ==
  /\ variant \in {"local", "sync"} /\ tasks[i].kind = "getsha"
  /\ \E outcome \in ReadOutcomes :
       LET sha == SJ_getRemoteFileSha(outcome)
           text == IF variant = "local" THEN StringifyFull(inventory)
                   ELSE StringifyPlain(inventory)
       IN  /\ tasks' = [tasks EXCEPT ![i] = PutTask(Btoa(text), sha)]
           /\ faults' = (faults \/ outcome = "error")
           /\ ev' = Ev("getsha", sha, FALSE)
  /\ UNCHANGED <<variant, GH_TOKEN, staleRev, prior, missedRev, searchInput, categoryFilter, phase, inventory, editingId, sortKey, sortAsc,
                 currentSha, storage, remote, nextId, now, ops, seenRev>>

\* updateRemoteData when the PUT is refused or the request fails: a warning
\* is logged, the persist is over.
SJ_putFailed(i) ==
  /\ tasks' = RemoveAt(tasks, i)
  /\ UNCHANGED inventory

\* updateRemoteData from the answer of the PUT to the end.
SJ_putSettled(i) ==
  /\ variant \in {"local", "sync"} /\ tasks[i].kind = "put"
  /\ \E net \in BOOLEAN :
       LET accepted == net /\ PutAccepted(tasks[i])
       IN  /\ IF accepted
              THEN /\ remote' = [exists |-> TRUE, rev |-> remote.rev + 1,
                                 doc |-> Atob(tasks[i].content), by |-> "self"]
                   /\ seenRev' = remote.rev + 1
                   /\ tasks' = RemoveAt(tasks, i)
                   /\ UNCHANGED inventory
              ELSE /\ SJ_putFailed(i)
                   /\ UNCHANGED <<remote, seenRev>>
           /\ faults' = (faults \/ (~net /\ PutAccepted(tasks[i])))
           /\ staleRev' = StaleRefusal(tasks[i], net, accepted)
           /\ ev' = Ev("put", [ok |-> accepted, sha |-> tasks[i].sha,
                               stale |-> remote.exists /\ tasks[i].sha # remote.rev], FALSE)
  /\ UNCHANGED <<variant, GH_TOKEN, prior, missedRev, searchInput, categoryFilter, phase, editingId, sortKey, sortAsc,
                 currentSha, storage, nextId, now, ops>>

\* ------------------------------------------- local: localStorage variant

\* Without a token loadInventory has no await: it has run before any handler can.
LS_interactive == GH_TOKEN \/ phase # "Loading"

\* Date.now() for each element of a map: the clock does not go back.
Stamps(n) ==
  {ts \in [1..n -> now..MaxClock] : \A i \in 1..n, j \in 1..n : i <= j => ts[i] <= ts[j]}

LS_mapItems(items, ts) ==
  [i \in 1..Len(items) |->
     SJ_normalize(items[i], IF HasId(items[i]) THEN items[i].id ELSE ts[i])]

\* JSON.parse(saved) throws: the slot holds a text that is no JSON.
LS_parseThrows == storage # << >> /\ storage[1].kind = "invalid"

\* localStorage.getItem(STORAGE_KEY); JSON.parse(saved) where there is one.
LS_savedItems == IF storage = << >> THEN << >> ELSE storage[1].items

\* A saveInventory that leaves localStorage alone once the remote store is
\* configured.
LS_saveInventoryRemoteOnly(inv) ==
  IF GH_TOKEN THEN SJ_updateRemoteData /\ UNCHANGED storage
  ELSE storage' = <<StringifyFull(inv)>> /\ UNCHANGED tasks

\* A saveInventory whose remote write does not look at the configuration.
LS_saveInventoryUnguarded(inv) ==
  /\ storage' = <<StringifyFull(inv)>>
  /\ SJ_updateRemoteData

\* saveInventory
LS_saveInventory(inv) ==
  /\ storage' = <<StringifyFull(inv)>>
  /\ IF GH_TOKEN THEN SJ_updateRemoteData ELSE UNCHANGED tasks

\* loadInventory (from the answer of fetchRemoteData when there is a token).
LS_loadInventory ==
  /\ variant = "local" /\ phase = "Loading"
  /\ \E outcome \in (IF GH_TOKEN THEN ReadOutcomes ELSE {"off"}) :
       LET remoteData == IF GH_TOKEN THEN SJ_fetchRaw(outcome)
                         ELSE [isNull |-> TRUE, items |-> << >>]
           threw == [outcome |-> outcome, ok |-> FALSE, rendered |-> FALSE]
           done == [outcome |-> outcome, ok |-> TRUE, rendered |-> TRUE]
       IN  /\ faults' = (faults \/ outcome = "error")
           /\ missedRev' = IF /\ GH_TOKEN
                               /\ remote.exists
                               /\ (remoteData.isNull \/ MapThrows(remoteData.items))
                            THEN remote.rev ELSE NoSha
           /\ IF ~remoteData.isNull
              THEN IF MapThrows(remoteData.items)
                   THEN /\ UNCHANGED <<inventory, categoryFilter, storage, now, seenRev>>
                        /\ ev' = Ev("load", threw, FALSE)
                   ELSE \E ts \in Stamps(Len(remoteData.items)) :
                          /\ inventory' = LS_mapItems(remoteData.items, ts)
                          /\ storage' = <<StringifyFull(inventory')>>
                          /\ SJ_render(inventory')
                          /\ now' = IF ts = << >> THEN now ELSE ts[Len(ts)]
                          /\ seenRev' = remote.rev
                          /\ ev' = Ev("load", done, FALSE)
              ELSE IF LS_parseThrows
                   THEN /\ UNCHANGED <<inventory, categoryFilter, storage, now, seenRev>>
                        /\ ev' = Ev("load", threw, FALSE)
                   ELSE /\ inventory' = LS_savedItems
                        /\ SJ_render(inventory')
                        /\ ev' = Ev("load", done, FALSE)
                        /\ UNCHANGED <<storage, now, seenRev>>
  /\ phase' = "Ready"
  /\ UNCHANGED <<variant, GH_TOKEN, staleRev, prior, searchInput, editingId, sortKey, sortAsc, currentSha, remote,
                 tasks, nextId, ops>>

\* handleFormSubmit
LS_handleFormSubmit(f) ==
  /\ variant = "local" /\ LS_interactive /\ Spend
  /\ LET id == editingId
         item == SJ_formItem(IF id # NoId THEN id ELSE now, f)
         index == FindIndex(inventory, id)
         op == IF id # NoId THEN "update" ELSE "create"
     IN  IF item.name = sEmpty \/ (id # NoId /\ index = 0)
         THEN /\ ev' = Ev(op, f, FALSE)
              /\ UNCHANGED <<inventory, editingId, categoryFilter, storage, tasks>>
         ELSE /\ inventory' = IF id # NoId THEN [inventory EXCEPT ![index] = item]
                              ELSE Append(inventory, item)
              /\ LS_saveInventory(inventory')
              /\ editingId' = NoId
              /\ SJ_render(inventory')
              /\ ev' = Ev(op, f, TRUE)
  /\ UNCHANGED <<variant, GH_TOKEN, staleRev, prior, faults, missedRev, searchInput, phase, sortKey, sortAsc, currentSha, remote,
                 nextId, now, seenRev>>

\* startEdit
LS_startEdit(id) ==
  /\ variant = "local" /\ LS_interactive /\ Spend
  /\ editingId' = IF id \in Ids(inventory) THEN id ELSE editingId
  /\ ev' = Ev("edit", id, FALSE)
  /\ UNCHANGED <<variant, GH_TOKEN, staleRev, prior, faults, missedRev, searchInput, categoryFilter, phase, inventory, sortKey, sortAsc, currentSha,
                 storage, remote, tasks, nextId, now, seenRev>>

\* cancelEditButton click: resetForm
LS_cancelEdit ==
  /\ variant = "local" /\ LS_interactive /\ Spend
  /\ editingId' = NoId
  /\ ev' = Ev("cancel", NoId, FALSE)
  /\ UNCHANGED <<variant, GH_TOKEN, staleRev, prior, faults, missedRev, searchInput, categoryFilter, phase, inventory, sortKey, sortAsc, currentSha,
                 storage, remote, tasks, nextId, now, seenRev>>

\* deleteItem; confirmed is the answer to confirm().
LS_deleteItem(id, confirmed) ==
  /\ variant = "local" /\ LS_interactive /\ Spend
  /\ LET index == FindIndex(inventory, id)
     IN  IF confirmed /\ index # 0
         THEN /\ inventory' = Splice(inventory, index)
              /\ LS_saveInventory(inventory')
              /\ SJ_render(inventory')
              /\ editingId' = IF editingId = id THEN NoId ELSE editingId
              /\ ev' = Ev("delete", [id |-> id, confirmed |-> confirmed], TRUE)
         ELSE /\ ev' = Ev("delete", [id |-> id, confirmed |-> confirmed], FALSE)
              /\ UNCHANGED <<inventory, editingId, categoryFilter, storage, tasks>>
  /\ UNCHANGED <<variant, GH_TOKEN, staleRev, prior, faults, missedRev, searchInput, phase, sortKey, sortAsc, currentSha, remote,
                 nextId, now, seenRev>>

\* handleImport, from reader.onload on; confirmed is the answer to confirm().
LS_handleImport(doc, confirmed) ==
  /\ variant = "local" /\ LS_interactive /\ Spend
  /\ IF doc.kind # "array" \/ ~confirmed \/ MapThrows(doc.items)
     THEN /\ ev' = Ev("import", [doc |-> doc, confirmed |-> confirmed], FALSE)
          /\ UNCHANGED <<inventory, editingId, categoryFilter, storage, tasks, now>>
     ELSE \E ts \in Stamps(Len(doc.items)) :
            /\ inventory' = LS_mapItems(doc.items, ts)
            /\ now' = IF ts = << >> THEN now ELSE ts[Len(ts)]
            /\ LS_saveInventory(inventory')
            /\ editingId' = NoId
            /\ SJ_render(inventory')
            /\ ev' = Ev("import", [doc |-> doc, confirmed |-> confirmed], TRUE)
  /\ UNCHANGED <<variant, GH_TOKEN, staleRev, prior, faults, missedRev, searchInput, phase, sortKey, sortAsc, currentSha, remote,
                 nextId, seenRev>>

\* exportJSON: the document offered for download.
LS_exportJSON ==
  /\ variant = "local" /\ LS_interactive /\ Spend
  /\ ev' = Ev("export", StringifyFull(inventory), FALSE)
  /\ UNCHANGED <<variant, GH_TOKEN, staleRev, prior, faults, missedRev, searchInput, categoryFilter, phase, inventory, editingId, sortKey, sortAsc,
                 currentSha, storage, remote, tasks, nextId, now, seenRev>>

\* A millisecond passes.
Tick ==
  /\ variant = "local" /\ now < MaxClock
  /\ now' = now + 1
  /\ ev' = Ev("tick", now + 1, FALSE)
  /\ UNCHANGED <<variant, GH_TOKEN, staleRev, prior, faults, missedRev, searchInput, categoryFilter, phase, inventory, editingId, sortKey, sortAsc,
                 currentSha, storage, remote, tasks, nextId, ops, seenRev>>

\* ------------------- actions, sync: the Actions edition and Remote Sync

\* String.prototype.toLowerCase over the letters of the model.
UpperCase == <<"A", "B", "C", "D", "E", "F", "G", "H", "I", "J", "K", "L", "M",
               "N", "O", "P", "Q", "R", "S", "T", "U", "V", "W", "X", "Y", "Z">>
LowerCase == <<"a", "b", "c", "d", "e", "f", "g", "h", "i", "j", "k", "l", "m",
               "n", "o", "p", "q", "r", "s", "t", "u", "v", "w", "x", "y", "z">>

ToLowerChar(c) ==
  IF \E i \in 1..Len(UpperCase) : UpperCase[i] = c
  THEN LowerCase[CHOOSE i \in 1..Len(UpperCase) : UpperCase[i] = c]
  ELSE c

ToLowerCase(str) == [i \in 1..Len(str) |-> ToLowerChar(str[i])]

\* The collation order of the characters of the model: white space, punctuation,
\* digits, letters.
Collation == <<" ", ".", "0", "1", "2", "3", "4", "5", "6", "7", "8", "9">> \o LowerCase

Rank(c) == CHOOSE i \in 1..Len(Collation) : Collation[i] = c

\* a.localeCompare(b) for lower-case strings: negative, 0 or positive.
RECURSIVE LocaleCompare(_, _)
LocaleCompare(a, b) ==
  CASE a = << >> /\ b = << >> -> 0
    [] a = << >> -> -1
    [] b = << >> -> 1
    [] Rank(Head(a)) < Rank(Head(b)) -> -1
    [] Rank(Head(a)) > Rank(Head(b)) -> 1
    [] OTHER -> LocaleCompare(Tail(a), Tail(b))

\* parseFloat(v) || 0 for a stored quantity.
QtyKey(q) == IF IsNum(q) THEN q[2] ELSE 0

\* The comparator sortInventoryBy hands to inventory.sort.
AR_compare(a, b, column, ascending) ==
  IF column = "qty"
  THEN IF ascending THEN QtyKey(a.qty) - QtyKey(b.qty) ELSE QtyKey(b.qty) - QtyKey(a.qty)
  ELSE LET cmp == LocaleCompare(ToLowerCase(a[column]), ToLowerCase(b[column]))
       IN  IF ascending THEN cmp ELSE 0 - cmp

\* Array.prototype.sort is stable: x goes behind every element it does not
\* precede.
RECURSIVE AR_insert(_, _, _, _)
AR_insert(sorted, x, column, ascending) ==
  IF sorted = << >> THEN <<x>>
  ELSE IF AR_compare(x, Head(sorted), column, ascending) < 0 THEN <<x>> \o sorted
  ELSE <<Head(sorted)>> \o AR_insert(Tail(sorted), x, column, ascending)

RECURSIVE AR_sort(_, _, _)
AR_sort(inv, column, ascending) ==
  IF inv = << >> THEN << >>
  ELSE AR_insert(AR_sort(SubSeq(inv, 1, Len(inv) - 1), column, ascending),
                 inv[Len(inv)], column, ascending)

\* A map whose items are added to the collection instead of replacing it.
AR_mapItemsMerged(items, next) ==
  inventory \o [i \in 1..Len(items) |-> SJ_normalize(items[i], next + i)]

\* remoteData.map / data.map: every item gets a generated identifier.
AR_mapItems(items, next) ==
  [i \in 1..Len(items) |-> SJ_normalize(items[i], next + i)]

\* fetchRemoteData of the Remote Sync version: the Contents API, atob, JSON.parse.
RS_fetchRemoteData(outcome) ==
  IF outcome = "found" /\ Atob(Btoa(remote.doc)).kind = "array"
  THEN [isNull |-> FALSE, items |-> Atob(Btoa(remote.doc)).items]
  ELSE [isNull |-> TRUE, items |-> << >>]

\* loadInventory, from the answer of fetchRemoteData on.
AR_loadInventory ==
  /\ variant \in {"actions", "sync"} /\ phase = "Loading"
  /\ \E outcome \in ReadOutcomes :
       LET remoteData == IF variant = "sync" THEN RS_fetchRemoteData(outcome)
                         ELSE SJ_fetchRaw(outcome)
           ok == ~MapThrows(remoteData.items)
       IN  /\ inventory' = IF remoteData.isNull THEN << >>
                           ELSE IF ok THEN AR_mapItems(remoteData.items, nextId)
                           ELSE inventory
           /\ nextId' = IF ok THEN nextId + Len(remoteData.items) ELSE nextId
           /\ seenRev' = IF ok /\ ~remoteData.isNull THEN remote.rev ELSE seenRev
           /\ IF ok THEN SJ_render(inventory') ELSE UNCHANGED categoryFilter
           /\ faults' = (faults \/ outcome = "error")
           /\ missedRev' = IF remote.exists /\ (remoteData.isNull \/ ~ok)
                            THEN remote.rev ELSE NoSha
           /\ ev' = Ev("load", [outcome |-> outcome, ok |-> ok, rendered |-> ok], FALSE)
  /\ phase' = "Ready"
  /\ UNCHANGED <<variant, GH_TOKEN, staleRev, prior, searchInput, editingId, sortKey, sortAsc, currentSha, storage,
                 remote, tasks, now, ops>>

\* saveInventory of the Actions edition: localStorage takes the collection
\* without its identifiers, or refuses the write.
ACT_saveInventory(inv) ==
  /\ \E stored \in BOOLEAN :
       storage' = IF stored THEN <<StringifyPlain(inv)>> ELSE storage
  /\ UNCHANGED tasks

\* saveInventory and the guard of updateRemoteData of the Remote Sync version.
RS_saveInventory(inv) ==
  /\ IF GH_TOKEN THEN SJ_updateRemoteData ELSE UNCHANGED tasks
  /\ UNCHANGED storage

AR_saveInventory(inv) ==
  IF variant = "actions" THEN ACT_saveInventory(inv) ELSE RS_saveInventory(inv)

\* handleFormSubmit
AR_handleFormSubmit(f) ==
  /\ variant \in {"actions", "sync"} /\ Spend
  /\ LET id == editingId
         item == SJ_formItem(IF id # NoId THEN id ELSE nextId + 1, f)
         index == FindIndex(inventory, id)
         op == IF id # NoId THEN "update" ELSE "create"
     IN  IF item.name = sEmpty
         THEN /\ ev' = Ev(op, f, FALSE)
              /\ UNCHANGED <<inventory, editingId, categoryFilter, storage, tasks, nextId>>
         ELSE /\ inventory' = IF id = NoId THEN Append(inventory, item)
                              ELSE IF index # 0 THEN [inventory EXCEPT ![index] = item]
                              ELSE inventory
              /\ nextId' = IF id = NoId THEN nextId + 1 ELSE nextId
              /\ editingId' = NoId
              /\ SJ_render(inventory')
              /\ AR_saveInventory(inventory')
              /\ ev' = Ev(op, f, TRUE)
  /\ UNCHANGED <<variant, GH_TOKEN, staleRev, prior, faults, missedRev, searchInput, phase, sortKey, sortAsc, currentSha, remote,
                 now, seenRev>>

\* startEdit
AR_startEdit(id) ==
  /\ variant \in {"actions", "sync"} /\ Spend
  /\ editingId' = IF id \in Ids(inventory) THEN id ELSE editingId
  /\ ev' = Ev("edit", id, FALSE)
  /\ UNCHANGED <<variant, GH_TOKEN, staleRev, prior, faults, missedRev, searchInput, categoryFilter, phase, inventory, sortKey, sortAsc, currentSha,
                 storage, remote, tasks, nextId, now, seenRev>>

\* cancelEditButton click: resetForm
AR_cancelEdit ==
  /\ variant \in {"actions", "sync"} /\ Spend
  /\ editingId' = NoId
  /\ ev' = Ev("cancel", NoId, FALSE)
  /\ UNCHANGED <<variant, GH_TOKEN, staleRev, prior, faults, missedRev, searchInput, categoryFilter, phase, inventory, sortKey, sortAsc, currentSha,
                 storage, remote, tasks, nextId, now, seenRev>>

\* deleteItem; confirmed is the answer to confirm().
AR_deleteItem(id, confirmed) ==
  /\ variant \in {"actions", "sync"} /\ Spend
  /\ LET index == FindIndex(inventory, id)
     IN  IF confirmed /\ index # 0
         THEN /\ inventory' = Splice(inventory, index)
              /\ editingId' = IF editingId = id THEN NoId ELSE editingId
              /\ SJ_render(inventory')
              /\ AR_saveInventory(inventory')
              /\ ev' = Ev("delete", [id |-> id, confirmed |-> confirmed], TRUE)
         ELSE /\ ev' = Ev("delete", [id |-> id, confirmed |-> confirmed], FALSE)
              /\ UNCHANGED <<inventory, editingId, categoryFilter, storage, tasks>>
  /\ UNCHANGED <<variant, GH_TOKEN, staleRev, prior, faults, missedRev, searchInput, phase, sortKey, sortAsc, currentSha, remote,
                 nextId, now, seenRev>>

\* sortInventoryBy
AR_sortInventoryBy(column) ==
  /\ variant \in {"actions", "sync"} /\ Spend
  /\ IF sortKey = column
     THEN sortAsc' = ~sortAsc /\ UNCHANGED sortKey
     ELSE sortKey' = column /\ sortAsc' = TRUE
  /\ inventory' = AR_sort(inventory, column, sortAsc')
  /\ SJ_render(inventory')
  /\ ev' = Ev("sort", column, FALSE)
  /\ UNCHANGED <<variant, GH_TOKEN, staleRev, prior, faults, missedRev, searchInput, phase, editingId, currentSha, storage, remote,
                 tasks, nextId, now, seenRev>>

\* handleImport, from reader.onload on; confirmed is the answer to confirm().
AR_handleImport(doc, confirmed) ==
  /\ variant \in {"actions", "sync"} /\ Spend
  /\ IF doc.kind # "array" \/ ~confirmed \/ MapThrows(doc.items)
     THEN /\ ev' = Ev("import", [doc |-> doc, confirmed |-> confirmed], FALSE)
          /\ UNCHANGED <<inventory, editingId, categoryFilter, storage, tasks, nextId>>
     ELSE /\ inventory' = AR_mapItems(doc.items, nextId)
          /\ nextId' = nextId + Len(doc.items)
          /\ editingId' = NoId
          /\ SJ_render(inventory')
          /\ AR_saveInventory(inventory')
          /\ ev' = Ev("import", [doc |-> doc, confirmed |-> confirmed], TRUE)
  /\ UNCHANGED <<variant, GH_TOKEN, staleRev, prior, faults, missedRev, searchInput, phase, sortKey, sortAsc, currentSha, remote,
                 now, seenRev>>

\* exportJSON: the document offered for download.
AR_exportJSON ==
  /\ variant \in {"actions", "sync"} /\ Spend
  /\ ev' = Ev("export", StringifyPlain(inventory), FALSE)
  /\ UNCHANGED <<variant, GH_TOKEN, staleRev, prior, faults, missedRev, searchInput, categoryFilter, phase, inventory, editingId, sortKey, sortAsc,
                 currentSha, storage, remote, tasks, nextId, now, seenRev>>

\* ------------------------------------------------------------ the view

\* String.prototype.includes
Includes(hay, needle) ==
  \E i \in 0..(Len(hay) - Len(needle)) : SubSeq(hay, i + 1, i + Len(needle)) = needle

\* The rows render of script.js puts into the table body.
SJ_filtered(inv, search, categoryTerm) ==
  LET searchTerm == ToLowerCase(Trim(search))
      keep(item) ==
        /\ categoryTerm = sEmpty \/ item.category = categoryTerm
        /\ \/ searchTerm = sEmpty
           \/ Includes(ToLowerCase(item.name \o <<" ">> \o item.notes), searchTerm)
  IN  SelectSeq(inv, keep)

\* compare of part_001; a difference that is NaN counts as 0 in sort.
GH_compare(a, b, key) ==
  IF key = "qty"
  THEN IF IsNum(a.qty) /\ IsNum(b.qty) THEN a.qty[2] - b.qty[2] ELSE 0
  ELSE LocaleCompare(ToLowerCase(a[key]), ToLowerCase(b[key]))

RECURSIVE GH_insert(_, _, _)
GH_insert(sorted, x, key) ==
  IF sorted = << >> THEN <<x>>
  ELSE IF GH_compare(x, Head(sorted), key) < 0 THEN <<x>> \o sorted
  ELSE <<Head(sorted)>> \o GH_insert(Tail(sorted), x, key)

\* [...data].sort((a, b) => compare(a, b, sortKey)): the elements are inserted
\* one by one, each into the sorted order of those before it (front).
RECURSIVE GH_sorted(_, _)
GH_sorted(data, key) ==
  IF data = << >> THEN << >>
  ELSE CHOOSE arr \in {GH_insert(front, data[Len(data)], key) :
                         front \in {GH_sorted(SubSeq(data, 1, Len(data) - 1), key)}} : TRUE

\* Array.prototype.reverse
Reverse(arr) == [i \in 1..Len(arr) |-> arr[Len(arr) + 1 - i]]

\* sortData
GH_sortData(data, key, asc) ==
  IF asc THEN GH_sorted(data, key) ELSE Reverse(GH_sorted(data, key))

\* The rows render of part_001 filters out of the collection.
GH_filtered(inv, search, cf) ==
  LET q == ToLowerCase(Trim(search))
      keep(it) ==
        /\ \/ q = sEmpty
           \/ Includes(ToLowerCase(it.name \o <<" ">> \o it.location \o <<" ">> \o it.notes), q)
        /\ cf = sEmpty \/ it.category = cf
  IN  SelectSeq(inv, keep)

\* The table body as render leaves it, from the collection and the controls.
Rows ==
  IF variant = "gh"
  THEN GH_sortData(GH_filtered(inventory, searchInput, categoryFilter), sortKey, sortAsc)
  ELSE SJ_filtered(inventory, searchInput, categoryFilter)

\* searchInput input: the user has typed q, render runs.
SJ_searchInput(q) ==
  /\ variant # "gh" /\ (variant = "local" => LS_interactive) /\ Spend
  /\ searchInput' = q
  /\ SJ_render(inventory)
  /\ ev' = Ev("search", q, FALSE)
  /\ UNCHANGED <<variant, GH_TOKEN, staleRev, prior, faults, missedRev, phase, inventory, editingId, sortKey, sortAsc,
                 currentSha, storage, remote, tasks, nextId, now, seenRev>>

\* categoryFilter change: the user has selected the option c, render runs.
SJ_categoryChange(c) ==
  /\ variant # "gh" /\ (variant = "local" => LS_interactive) /\ Spend
  /\ categoryFilter' = SJ_restore(c, inventory)
  /\ ev' = Ev("category", c, FALSE)
  /\ UNCHANGED <<variant, GH_TOKEN, staleRev, prior, faults, missedRev, phase, inventory, editingId, sortKey, sortAsc,
                 currentSha, storage, remote, tasks, nextId, now, searchInput, seenRev>>

\* searchInput input of part_001
GH_searchInput(q) ==
  /\ variant = "gh" /\ Spend
  /\ searchInput' = q
  /\ GH_render
  /\ ev' = Ev("search", q, FALSE)
  /\ UNCHANGED <<variant, GH_TOKEN, staleRev, prior, faults, missedRev, phase, inventory, editingId, sortKey, sortAsc,
                 currentSha, storage, remote, tasks, nextId, now, seenRev>>

\* categoryFilter change of part_001: the user has selected the option c,
\* render runs.
GH_categoryChange(c) ==
  /\ variant = "gh" /\ Spend
  /\ GH_render
  /\ ev' = Ev("category", c, FALSE)
  /\ UNCHANGED <<variant, GH_TOKEN, staleRev, prior, faults, missedRev, phase, inventory, editingId, sortKey, sortAsc,
                 currentSha, storage, remote, tasks, nextId, now, searchInput, seenRev>>

\* ------------------------------------------------------- sessions and runs

\* The in-memory state a script starts with.
Boot(v) ==
  /\ phase' = "Loading"
  /\ inventory' = << >>
  /\ editingId' = NoId
  /\ sortKey' = IF v = "gh" THEN "name" ELSE "none"
  /\ sortAsc' = TRUE
  /\ currentSha' = NoSha
  /\ seenRev' = NoSha
  /\ missedRev' = NoSha
  /\ staleRev' = NoSha
  /\ searchInput' = sEmpty
  /\ categoryFilter' = sEmpty

\* The user loads the page again once the writes in flight have settled: the
\* script starts over, localStorage and the remote document stay.
Reload ==
  /\ Spend /\ tasks = << >> /\ phase = "Ready"
  /\ Boot(variant)
  /\ prior' = <<inventory>>
  /\ ev' = Ev("reload", NoId, FALSE)
  /\ UNCHANGED <<variant, GH_TOKEN, faults, storage, remote, tasks, nextId, now>>

\* The access token per edition: script.js ships '' and asks the deployer to
\* insert one (the Actions edition never uses it), part_001 carries one.
Tokens(v) ==
  CASE v = "gh" -> {TRUE}
    [] v = "actions" -> {FALSE}
    [] OTHER -> {FALSE, TRUE}

\* What the slot of the edition holds when the first session starts: nothing, or
\* (where the edition reads the slot) a text that is no JSON.
InitialSlots(v) == IF v = "local" THEN {<< >>, <<InvalidDoc>>} ELSE {<< >>}

InitialRemotes ==
  {NoRemote, [exists |-> TRUE, rev |-> 1, doc |-> DocTwo, by |-> "other"]}

Init ==
  /\ variant \in Variants
  /\ GH_TOKEN \in Tokens(variant)
  /\ phase = "Loading"
  /\ inventory = << >>
  /\ editingId = NoId
  /\ sortKey = IF variant = "gh" THEN "name" ELSE "none"
  /\ sortAsc = TRUE
  /\ currentSha = NoSha
  /\ seenRev = NoSha
  /\ searchInput = sEmpty
  /\ categoryFilter = sEmpty
  /\ prior = << >>
  /\ faults = FALSE
  /\ missedRev = NoSha
  /\ staleRev = NoSha
  /\ storage \in InitialSlots(variant)
  /\ remote \in InitialRemotes
  /\ tasks = << >>
  /\ nextId = 0
  /\ now = 1
  /\ ops = 0
  /\ ev = Ev("boot", NoId, FALSE)

\* The file an export has just written, which the user can hand to an import.
Exported == IF ev.op = "export" THEN {ev.arg} ELSE {}

\* Columns with a sortable header.
Columns == {"name", "qty"}

Next ==
  \/ OtherWrite
  \/ Reload
  \/ Tick
  \/ \E i \in 1..Len(tasks) : SJ_shaSettled(i)
  \/ \E i \in 1..Len(tasks) : SJ_putSettled(i)
  \/ LS_loadInventory
  \/ \E f \in Forms : LS_handleFormSubmit(f)
  \/ \E id \in ClickIds : LS_startEdit(id)
  \/ LS_cancelEdit
  \/ \E id \in ClickIds, c \in BOOLEAN : LS_deleteItem(id, c)
  \/ \E d \in ImportDocs \cup Exported, c \in BOOLEAN : LS_handleImport(d, c)
  \/ LS_exportJSON
  \/ AR_exportJSON
  \/ GH_exportClick
  \/ AR_loadInventory
  \/ \E f \in Forms : AR_handleFormSubmit(f)
  \/ \E id \in ClickIds : AR_startEdit(id)
  \/ AR_cancelEdit
  \/ \E id \in ClickIds, c \in BOOLEAN : AR_deleteItem(id, c)
  \/ \E k \in Columns : AR_sortInventoryBy(k)
  \/ \E d \in ImportDocs \cup Exported, c \in BOOLEAN : AR_handleImport(d, c)
  \/ GH_loadInventory
  \/ \E i \in 1..Len(tasks) : GH_saveSettled(i)
  \/ \E f \in Forms : GH_addBtn(f)
  \/ \E f \in Forms : GH_updateBtn(f)
  \/ GH_cancelEdit
  \/ \E id \in ClickIds : GH_editClick(id)
  \/ \E id \in ClickIds, c \in BOOLEAN : GH_deleteClick(id, c)
  \/ \E k \in Columns : GH_headClick(k)
  \/ \E d \in ImportDocs \cup Exported : GH_importChange(d)
  \/ \E q \in SearchTerms : SJ_searchInput(q)
  \/ \E c \in Categories(inventory) \cup {sEmpty} : SJ_categoryChange(c)
  \/ \E q \in SearchTerms : GH_searchInput(q)
  \/ \E c \in Categories(inventory) \cup {sEmpty} : GH_categoryChange(c)

Spec == Init /\ [][Next]_vars

\* ------------------------------------------------------------- properties

\* The text is empty after trimming.
IsBlank(str) == \A i \in 1..Len(str) : IsSpace(str[i])

\* The records of a collection, identifiers aside.
Fields(inv) == [i \in 1..Len(inv) |-> Rest(inv[i])]

\* The names of the elements of a document.
Names(items) == [i \in 1..Len(items) |-> TextOr(items[i], "name")]

\* The operations of the user that change the content of the collection.
MutatingOps == {"create", "update", "delete", "import"}

\* The write requests in flight.
Puts(ts) == Cardinality({i \in 1..Len(ts) : ts[i].kind = "put"})

\* C1: on the token-checked store (Remote Sync, GitHub JSON only), once another
\* writer has replaced the document after this session's last load or last
\* successful write, no step of this session replaces that revision.
C1_NeverOverwritesOther ==
  [][(/\ variant \in {"sync", "gh"}
      /\ phase = "Ready" /\ seenRev # NoSha
      /\ remote.by = "other" /\ remote.rev > seenRev)
     => remote'.by = "other"]_vars

\* C2: a write that arrives with a stale token (the document exists and the
\* sha sent is not its current revision) is refused, and the step that ends it
\* leaves the remote document and the in-memory collection as they were.
C2_StaleWriteFails ==
  [][\A i \in 1..Len(tasks) :
       (/\ ev'.op = "put" /\ tasks[i].kind = "put" /\ tasks' = RemoveAt(tasks, i)
        /\ remote.exists /\ tasks[i].sha # remote.rev)
       => (remote' = remote /\ inventory' = inventory)]_vars

\* C2 happens: a write sent with the sha of a revision another writer has since
\* replaced was refused while the collection holds items.
C2_StaleRejected ==
  /\ phase = "Ready"
  /\ ev.op = "put" /\ ev.arg.stale /\ ~ev.arg.ok /\ ev.arg.sha # NoSha
  /\ remote.by = "other" /\ inventory # << >>

\* C3: a persist sends at most one write: the step that answers a write ends
\* its persist without sending another, the step that answers the read of the
\* sha sends exactly one, and a persist starts only with an operation of the
\* user, one per operation.
C3_OneWritePerPersist ==
  [][/\ ev'.op = "put" => (Len(tasks') = Len(tasks) - 1 /\ Puts(tasks') = Puts(tasks) - 1)
     /\ ev'.op = "getsha" => (Len(tasks') = Len(tasks) /\ Puts(tasks') = Puts(tasks) + 1)
     /\ Len(tasks') > Len(tasks) =>
          (ev'.saved /\ ops' = ops + 1 /\ Len(tasks') = Len(tasks) + 1)
     /\ Puts(tasks') > Puts(tasks) => Puts(tasks') = Puts(tasks) + 1]_vars

\* C3 happens: on the token-checked store a write with a stale token was
\* refused, and nothing is in flight afterwards.
C3_RejectedAndOver ==
  /\ variant \in {"sync", "gh"} /\ phase = "Ready"
  /\ ev.op = "put" /\ ev.arg.stale /\ ~ev.arg.ok /\ tasks = << >>

\* C4: every step of a session that changes the content or the order of the
\* collection starts a persist, and the payload (where the write leaves at
\* once) is the whole collection.
C4_EveryChangePersists ==
  [][(inventory' # inventory /\ ev'.op \notin {"load", "reload"})
     => /\ ev'.saved
        /\ variant = "gh" =>
             tasks' = Append(tasks, PutTask(Btoa(StringifyFull(inventory')), currentSha))]_vars

\* C5: after loadInventory the collection comes from the remote document when
\* the read yields an array, else from the local cache when it holds one, else
\* it is empty.
C5_StartupOrder ==
  ev.op = "load" =>
    IF ev.arg.outcome = "found" /\ remote.doc.kind = "array"
    THEN Names(inventory) = Names(remote.doc.items)
    ELSE IF storage # << >>
    THEN Names(inventory) = Names(storage[1].items)
    ELSE inventory = << >>

\* C6: in the editions that write a local cache, a session that starts while
\* the remote store yields nothing holds the records the previous session held,
\* in the same order.
C6_CacheServesNextSession ==
  (/\ variant \in {"local", "actions"}
   /\ ev.op = "load" /\ ev.arg.outcome # "found" /\ prior # << >>)
  => Fields(inventory) = Fields(prior[1])

C8_UniqueIds == Cardinality(Ids(inventory)) = Len(inventory)

\* C9: a create whose name is empty after trimming changes neither the
\* collection nor localStorage nor the requests in flight nor the remote
\* document.
C9_BlankNameRejected ==
  [][(ev'.op = "create" /\ IsBlank(ev'.arg.name))
     => (inventory' = inventory /\ storage' = storage /\ tasks' = tasks
         /\ remote' = remote)]_vars

\* C9 happens: a create with a name of white space only was turned down while
\* the collection holds items.
C9_BlankTurnedDown ==
  /\ ev.op = "create" /\ ev.arg.name = sBlank /\ ~ev.saved
  /\ inventory # << >>

\* C10: a create with a name that is not empty after trimming appends exactly
\* one item at the end, whose identifier no item of the collection carries,
\* keeps the items before it as they were and starts a persist.
C10_CreateAppends ==
  [][(ev'.op = "create" /\ ~IsBlank(ev'.arg.name))
     => /\ Len(inventory') = Len(inventory) + 1
        /\ SubSeq(inventory', 1, Len(inventory)) = inventory
        /\ inventory'[Len(inventory')].id \notin Ids(inventory)
        /\ ev'.saved]_vars

\* The step replaces one item carrying the identifier of the edit session by
\* the fields of the form, keeps its identifier, its position, every other item
\* and the length, and starts a persist.
UpdateReplaces ==
  /\ Len(inventory') = Len(inventory)
  /\ \E i \in 1..Len(inventory) :
       /\ inventory[i].id = editingId
       /\ inventory'[i].id = editingId
       /\ inventory'[i].name = Trim(ev'.arg.name)
       /\ inventory'[i].category = Trim(ev'.arg.category)
       /\ inventory'[i].unit = Trim(ev'.arg.unit)
       /\ inventory'[i].location = Trim(ev'.arg.location)
       /\ inventory'[i].notes = Trim(ev'.arg.notes)
       /\ \A j \in 1..Len(inventory) : j # i => inventory'[j] = inventory[j]
  /\ ev'.saved

\* C11 as stated: every update, while the identifier in the edit session is
\* that of an item of the collection, replaces that item in place and starts a
\* persist; an update while it is that of no item leaves the collection as it
\* was.
C11_UpdateAlways ==
  [][ev'.op = "update" =>
       IF editingId \in Ids(inventory) THEN UpdateReplaces
       ELSE inventory' = inventory]_vars

\* C11, amended: an update with a name that is not empty after trimming, while
\* the identifier in the edit session is that of an item of the collection,
\* replaces that item in place and starts a persist; an update while the
\* identifier of the edit session is that of no item leaves the collection as
\* it was.
C11_UpdateInPlace ==
  [][ev'.op = "update" =>
       IF editingId \in Ids(inventory)
       THEN ~IsBlank(ev'.arg.name) => UpdateReplaces
       ELSE inventory' = inventory]_vars

\* C11 happens: the second of two items was updated and is still the second.
C11_SecondUpdated ==
  /\ ev.op = "update" /\ ev.saved /\ Len(inventory) = 2
  /\ inventory[1].name # Trim(ev.arg.name)
  /\ inventory[2].name = Trim(ev.arg.name)
  /\ inventory[2].category = Trim(ev.arg.category)

\* C12: a delete whose confirmation is declined changes neither the collection
\* nor the edit session nor localStorage nor the remote document, and starts no
\* persist.
C12_DeclinedDeleteKeepsAll ==
  [][(ev'.op = "delete" /\ ~ev'.arg.confirmed)
     => (/\ inventory' = inventory /\ editingId' = editingId
         /\ storage' = storage /\ remote' = remote /\ tasks' = tasks
         /\ ~ev'.saved)]_vars

\* C12 happens: the delete of an item of the collection was declined.
C12_Declined ==
  /\ ev.op = "delete" /\ ~ev.arg.confirmed
  /\ ev.arg.id \in Ids(inventory)

\* C13: a delete of an identifier no item carries changes neither the
\* collection nor the stores and starts no persist; a confirmed delete of an
\* identifier of the collection removes exactly one item, which carried that
\* identifier, and keeps the others in their order.
C13_DeleteRemovesOne ==
  [][ev'.op = "delete" =>
       IF ev'.arg.id \notin Ids(inventory)
       THEN /\ inventory' = inventory /\ storage' = storage /\ tasks' = tasks
            /\ ~ev'.saved
       ELSE ev'.arg.confirmed =>
              /\ Len(inventory') = Len(inventory) - 1
              /\ \E i \in 1..Len(inventory) :
                   /\ inventory[i].id = ev'.arg.id
                   /\ \A j \in 1..(i - 1) : inventory'[j] = inventory[j]
                   /\ \A j \in i..Len(inventory') : inventory'[j] = inventory[j + 1]]_vars

\* C13 happens: a confirmed delete of an identifier no item carries left a
\* collection of two items.
C13_StrayDelete ==
  /\ ev.op = "delete" /\ ev.arg.confirmed /\ ev.arg.id \notin Ids(inventory)
  /\ ~ev.saved /\ Len(inventory) = 2

\* C14: a confirmed delete that removes the item open for editing ends the edit
\* session.
C14_DeleteEndsEdit ==
  [][(/\ ev'.op = "delete" /\ ev'.arg.confirmed
      /\ ev'.arg.id \in Ids(inventory) /\ editingId = ev'.arg.id)
     => editingId' = NoId]_vars

\* The document an import step was handed, and whether the user was asked and
\* agreed (the GitHub JSON only edition never asks).
ImportDoc(e) == IF "doc" \in DOMAIN e.arg THEN e.arg.doc ELSE e.arg
ImportConfirmed(e) == "confirmed" \in DOMAIN e.arg /\ e.arg.confirmed

\* The import is of an array and meets no refusal of the user.
ImportGoesAhead(e) ==
  /\ ImportDoc(e).kind = "array"
  /\ "confirmed" \in DOMAIN e.arg => e.arg.confirmed

TextFields == {"name", "category", "unit", "location", "notes"}

\* C15: an import of a text that is no JSON, or whose top level is no array,
\* changes neither the collection nor the stores and starts no persist.
C15_NonArrayImportBlocked ==
  [][(ev'.op = "import" /\ ImportDoc(ev').kind # "array")
     => (/\ inventory' = inventory /\ storage' = storage /\ tasks' = tasks
         /\ remote' = remote /\ ~ev'.saved)]_vars

\* C15 happens: the import of a JSON object was turned down while the
\* collection holds items.
C15_ObjectTurnedDown ==
  /\ ev.op = "import" /\ ImportDoc(ev).kind = "object" /\ ~ev.saved
  /\ inventory # << >>

\* C16: an import the user has not confirmed changes neither the collection
\* nor the stores and starts no persist.
C16_ImportNeedsConfirmation ==
  [][(ev'.op = "import" /\ ~ImportConfirmed(ev'))
     => (/\ inventory' = inventory /\ storage' = storage /\ tasks' = tasks
         /\ ~ev'.saved)]_vars

\* C17: an import that goes ahead, of an array of n objects, leaves exactly n
\* items, the i-th made from the i-th element with every text field the element
\* lacks set to the empty text, whatever the collection held before, and starts
\* a persist.
C17_ImportReplaces ==
  [][(/\ ev'.op = "import" /\ ImportGoesAhead(ev')
      /\ \A i \in 1..Len(ImportDoc(ev').items) : IsObject(ImportDoc(ev').items[i]))
     => LET items == ImportDoc(ev').items
        IN  /\ Len(inventory') = Len(items)
            /\ \A i \in 1..Len(items) : \A f \in TextFields :
                 /\ f \in DOMAIN inventory'[i]
                 /\ inventory'[i][f] = IF f \in DOMAIN items[i] THEN items[i][f] ELSE sEmpty
            /\ ev'.saved]_vars

\* C17 happens: in the Actions edition the two items loaded from the remote
\* file were replaced by the two of the imported array, whose first element has
\* neither location nor notes.
C17_TwoReplaceTwo ==
  /\ variant = "actions" /\ seenRev # NoSha
  /\ ev.op = "import" /\ ev.saved /\ ImportDoc(ev) = DocTwo
  /\ Len(inventory) = 2
  /\ inventory[1].location = sEmpty /\ inventory[1].notes = sEmpty

\* C18: every item of the collection has an identifier and a quantity that is
\* a finite number.
C18_FiniteQuantity ==
  \A i \in 1..Len(inventory) :
    /\ inventory[i].id # NoId
    /\ inventory[i].qty[1] = "num"

\* C19: an import of an array that goes ahead completes whatever the elements
\* are: it leaves one item per element and starts a persist.
C19_ImportNeverFails ==
  [][(ev'.op = "import" /\ ImportGoesAhead(ev'))
     => (Len(inventory') = Len(ImportDoc(ev').items) /\ ev'.saved)]_vars

\* C20: the exported document holds one record per item of the collection, in
\* the order of the collection, with the fields of the item and no identifier.
C20_ExportStripsIds ==
  ev.op = "export" =>
    /\ ev.arg.kind = "array"
    /\ Len(ev.arg.items) = Len(inventory)
    /\ \A i \in 1..Len(inventory) :
         /\ "id" \notin DOMAIN ev.arg.items[i]
         /\ \A f \in TextFields : ev.arg.items[i][f] = inventory[i][f]

\* The elements of a document that carry an identifier.
DocIds(doc) == {doc.items[k].id : k \in {j \in 1..Len(doc.items) : HasId(doc.items[j])}}

\* C21: no write in flight to the remote store carries the identifier of an
\* item, and after a load that read the remote document no item of the
\* collection carries an identifier found in that document.
C21_IdsNeverRoundTrip ==
  /\ \A i \in 1..Len(tasks) :
       tasks[i].kind = "put" =>
         \A k \in 1..Len(Atob(tasks[i].content).items) :
           "id" \notin DOMAIN Atob(tasks[i].content).items[k]
  /\ (ev.op = "load" /\ ev.arg.outcome = "found" /\ ev.arg.ok /\ remote.doc.kind = "array")
       => Ids(inventory) \cap DocIds(remote.doc) = {}

\* C22: in the localStorage variant without an access token no request is in
\* flight and none was answered, the remote document is never written, every
\* load takes the collection from localStorage and every mutation that went
\* through left the collection in localStorage.
C22_LocalStorageOnly ==
  (variant = "local" /\ ~GH_TOKEN) =>
    /\ tasks = << >>
    /\ remote.by # "self"
    /\ ev.op \notin {"getsha", "put"}
    /\ ev.op = "load" => (ev.arg.outcome = "off" /\ inventory = LS_savedItems)
    /\ (ev.op \in MutatingOps /\ ev.saved) => storage = <<StringifyFull(inventory)>>

\* C22 happens: without a token, while a remote document exists, a second
\* session has loaded the items the first one left in localStorage.
C22_SecondSessionFromCache ==
  /\ variant = "local" /\ ~GH_TOKEN /\ remote.exists
  /\ ev.op = "load" /\ prior # << >> /\ inventory # << >>
  /\ inventory = prior[1]

\* The items of a sequence, with their multiplicity.
Count(arr, x) == Cardinality({i \in 1..Len(arr) : arr[i] = x})
SameItems(a, b) ==
  \A x \in {a[i] : i \in 1..Len(a)} \cup {b[i] : i \in 1..Len(b)} : Count(a, x) = Count(b, x)

\* The items of the collection whose category is cat (all for the empty term)
\* and whose name and notes contain the search term, letter case aside (all for
\* the empty term).
Matching(search, cat) ==
  LET match(it) ==
        /\ cat = sEmpty \/ it.category = cat
        /\ \/ search = sEmpty
           \/ Includes(ToLowerCase(it.name \o <<" ">> \o it.notes), ToLowerCase(search))
  IN  SelectSeq(inventory, match)

\* C23: once the user has selected a category or typed a search term, the rows
\* shown are exactly the items of the collection that match the selected
\* category and the search term.
C23_RowsMatchFilter ==
  /\ ev.op = "category" => SameItems(Rows, Matching(searchInput, ev.arg))
  /\ ev.op = "search" => SameItems(Rows, Matching(ev.arg, categoryFilter))

\* C24: a click on the header of the sort column flips the direction and keeps
\* the column; a click on the header of another column makes it the sort
\* column, ascending.
C24_SortToggle ==
  [][ev'.op = "sort" =>
       IF sortKey = ev'.arg
       THEN sortKey' = sortKey /\ sortAsc' = ~sortAsc
       ELSE sortKey' = ev'.arg /\ sortAsc' = TRUE]_vars

\* C24 happens: the second click on the quantity header has left the view
\* sorted by quantity, descending.
C24_FlippedToDescending ==
  /\ ev.op = "sort" /\ ev.arg = "qty" /\ sortKey = "qty" /\ ~sortAsc
  /\ ops = 2

\* a stands before b somewhere in arr.
Before(arr, a, b) == \E p, q \in 1..Len(arr) : p < q /\ arr[p] = a /\ arr[q] = b

\* The keys of two items under a column differ, letter case aside.
DistinctKeys(a, b, col) ==
  IF col = "qty" THEN QtyKey(a.qty) # QtyKey(b.qty)
  ELSE ToLowerCase(a[col]) # ToLowerCase(b[col])

\* The order an edition gives to arr under a column and a direction.
SortBy(arr, col, asc) ==
  IF variant = "gh" THEN GH_sortData(arr, col, asc) ELSE AR_sort(arr, col, asc)

\* C25: after a click on a header, sorting the resulting order again by the
\* same column and direction changes nothing, two different items whose keys
\* are equal stand in the order they had before the sort, in either direction,
\* and sorting to the other direction and back keeps the order of items with
\* distinct keys.
C25_SortStable ==
  [][ev'.op = "sort" =>
       \A before \in {IF variant = "gh"
                      THEN GH_filtered(inventory', searchInput', categoryFilter')
                      ELSE inventory} :
       \A after \in {IF variant = "gh" THEN Rows' ELSE inventory'} :
       \A flipped \in {SortBy(after, sortKey', ~sortAsc')} :
       \A back \in {SortBy(flipped, sortKey', sortAsc')} :
         /\ SortBy(after, sortKey', sortAsc') = after
         /\ \A i, j \in 1..Len(before) :
              (i < j /\ before[i] # before[j] /\ before[i][sortKey'] = before[j][sortKey'])
              => Before(after, before[i], before[j])
         /\ \A i, j \in 1..Len(after) :
              (i < j /\ DistinctKeys(after[i], after[j], sortKey'))
              => Before(back, after[i], after[j])]_vars

\* The record of an item without its identifier, as JSON carries it, and the
\* item the edition makes of such a record.
Stripped(it) == [Rest(it) EXCEPT !.qty = JsonQty(@)]
Normalized(e) == IF variant = "gh" THEN GH_normalize(e, NoId) ELSE SJ_normalize(e, NoId)

\* C26: every item of the collection is equal, in name, category, quantity,
\* unit, location and notes, to the item made of its stripped record, and an
\* import of the document just exported leaves the records of the collection
\* as they were, in the same order.
C26_RoundTrip ==
  [][/\ \A i \in 1..Len(inventory') :
          \A f \in TextFields \cup {"qty"} :
            Normalized(Stripped(inventory'[i]))[f] = inventory'[i][f]
     /\ (/\ ev.op = "export" /\ ev'.op = "import"
         /\ ImportDoc(ev') = ev.arg /\ ImportGoesAhead(ev'))
        => Fields(inventory') = Fields(inventory)]_vars

\* C27: every load ends with the view rendered.
C27_LoadAlwaysRenders == ev.op = "load" => ev.arg.rendered

\* The document an edition sends to the remote store for a collection.
Payload(inv) == IF variant = "sync" THEN StringifyPlain(inv) ELSE StringifyFull(inv)

\* C28: while no request has met a network error and no other writer has
\* written, once a write has been answered and no persist is in flight the
\* remote document holds exactly the records of the collection.
C28_QuiescentRemoteMatches ==
  (/\ variant \in {"local", "sync", "gh"} /\ GH_TOKEN /\ ~faults
   /\ phase = "Ready" /\ ev.op = "put" /\ tasks = << >>)
  => SameItems(remote.doc.items, Payload(inventory).items)

\* C29: a create, update, delete or import is applied, and a persist is
\* started, only once the load has settled, and the load settles on the
\* collection the script started with.
C29_MutationsOnlyWhenReady ==
  [][/\ (ev'.op \in MutatingOps /\ ev'.saved) => phase = "Ready"
     /\ Len(tasks') > Len(tasks) => phase = "Ready"
     /\ ev'.op = "load" => inventory = << >>]_vars

\* C30: while the remote document is the one the load of this session found
\* and did not obtain, no step of the session replaces it.
C30_MissedDocumentKept ==
  [][(missedRev # NoSha /\ remote.rev = missedRev)
     => (remote' = remote \/ remote'.by = "other")]_vars

\* C31: once a write of this session was refused as stale, and nobody has
\* written since, the next write the session sends carries the sha of the
\* current revision: the PUT a handler of part_001 sends, and the PUT that
\* follows a read of the sha which was answered in the script.js editions.
C31_RetryCarriesCurrent ==
  [][(staleRev # NoSha /\ remote.rev = staleRev)
     => /\ (variant = "gh" /\ Len(tasks') > Len(tasks))
             => tasks'[Len(tasks')].sha = remote.rev
        /\ (ev'.op = "getsha" /\ ev'.arg # NoSha)
             => \A i \in 1..Len(tasks) :
                  (tasks[i].kind = "getsha" /\ tasks'[i].kind = "put")
                  => tasks'[i].sha = remote.rev]_vars

\* C32: in part_001 the sha held follows the remote file: a load that was
\* answered leaves the sha of the file it read (none when there is no file), an
\* accepted PUT leaves the sha of the revision it created, a PUT that failed
\* leaves the sha as it was, and every PUT is sent with the sha held.
C32_HeldTokenFollows ==
  [][variant = "gh" =>
       /\ (ev'.op = "load" /\ ev'.arg.outcome = "found") => currentSha' = remote.rev
       /\ (ev'.op = "load" /\ ev'.arg.outcome = "missing") => currentSha' = NoSha
       /\ (ev'.op = "put" /\ ev'.arg.ok) => currentSha' = remote'.rev
       /\ (ev'.op = "put" /\ ~ev'.arg.ok) => currentSha' = currentSha
       /\ Len(tasks') > Len(tasks) => tasks'[Len(tasks')].sha = currentSha]_vars

\* A PUT that carried the sha obtained by the load was accepted, and the sha of
\* the revision it created is held.
C32_SecondRevisionHeld ==
  /\ variant = "gh" /\ ev.op = "put" /\ ev.arg.ok /\ ev.arg.sha # NoSha
  /\ currentSha = remote.rev /\ remote.by = "self"

C34_EditRefersToItem == editingId = NoId \/ editingId \in Ids(inventory)

\* C35: a click on a sortable header leaves the collection itself in the order
\* of the column and direction now in force, which is the order exports and
\* persists read afterwards.
C35_SortReordersCollection ==
  [][ev'.op = "sort"
     => \A sorted \in {SortBy(inventory, sortKey', sortAsc')} : inventory' = sorted]_vars

====
